---------------------------- MODULE Spec2Model ----------------------------
(***************************************************************************)
(* OrderlyID (orderlykit/orderlyid, Go): the codec (pack/unpack, Crockford *)
(* Base32, Bech32-style checksum), the facade (New, NewFromParts, Parse)   *)
(* and the process-wide sequence state (mu, lastMs, seq12).                *)
(*                                                                         *)
(* Representation.  TLC's integers are 32-bit, so                          *)
(*   - a Go string is a sequence of byte values (0..255);                  *)
(*   - a 64-bit integer (int64/uint64) is a sequence of 8 bytes, most      *)
(*     significant first, two's complement: arithmetic is modulo 2^64;     *)
(*   - a uint32 accumulator is a pair <<hi16, lo16>>;                      *)
(*   - byte, uint16 and the 30-bit polymod state are plain integers.       *)
(***************************************************************************)
EXTENDS Integers, Sequences, FiniteSets, TLC

-----------------------------------------------------------------------------
(* Bit operations on non-negative integers below 2^30, six bits at a time.
   The tables are sequences, built once. *)

Bit(x, k) == (x \div (2 ^ k)) % 2

And6(x, y) ==
    Bit(x, 0) * Bit(y, 0) + 2 * (Bit(x, 1) * Bit(y, 1))
        + 4 * (Bit(x, 2) * Bit(y, 2)) + 8 * (Bit(x, 3) * Bit(y, 3))
        + 16 * (Bit(x, 4) * Bit(y, 4)) + 32 * (Bit(x, 5) * Bit(y, 5))

Xor6(x, y) ==
    ((Bit(x, 0) + Bit(y, 0)) % 2) + 2 * ((Bit(x, 1) + Bit(y, 1)) % 2)
        + 4 * ((Bit(x, 2) + Bit(y, 2)) % 2) + 8 * ((Bit(x, 3) + Bit(y, 3)) % 2)
        + 16 * ((Bit(x, 4) + Bit(y, 4)) % 2) + 32 * ((Bit(x, 5) + Bit(y, 5)) % 2)

(* And6Table[x + 1][y + 1] = x & y and Xor6Table[x + 1][y + 1] = x ^ y, for
   x, y in 0..63 *)
And6Table ==
    SubSeq([x \in 1..64 |-> SubSeq([y \in 1..64 |-> And6(x - 1, y - 1)], 1, 64)], 1, 64)

Xor6Table ==
    SubSeq([x \in 1..64 |-> SubSeq([y \in 1..64 |-> Xor6(x - 1, y - 1)], 1, 64)], 1, 64)

(* The k-th group of six bits of x *)
Six(x, k) == (x \div (64 ^ k)) % 64

BitAnd(a, b) ==
    IF a < 64 \/ b < 64 THEN And6Table[(a % 64) + 1][(b % 64) + 1]
    ELSE And6Table[Six(a, 0) + 1][Six(b, 0) + 1]
         + 64 * And6Table[Six(a, 1) + 1][Six(b, 1) + 1]
         + 4096 * And6Table[Six(a, 2) + 1][Six(b, 2) + 1]
         + 262144 * And6Table[Six(a, 3) + 1][Six(b, 3) + 1]
         + 16777216 * And6Table[Six(a, 4) + 1][Six(b, 4) + 1]

BitXor(a, b) ==
    Xor6Table[Six(a, 0) + 1][Six(b, 0) + 1]
    + (IF a < 64 /\ b < 64 THEN 0
       ELSE 64 * Xor6Table[Six(a, 1) + 1][Six(b, 1) + 1]
            + 4096 * Xor6Table[Six(a, 2) + 1][Six(b, 2) + 1]
            + 262144 * Xor6Table[Six(a, 3) + 1][Six(b, 3) + 1]
            + 16777216 * Xor6Table[Six(a, 4) + 1][Six(b, 4) + 1])

(* a | b = (a ^ b) + (a & b) *)
BitOr(a, b) == BitXor(a, b) + BitAnd(a, b)

(* x >> n and x << n on an integer that stays below 2^31. *)
Shr(x, n) == x \div (2 ^ n)
Shl(x, n) == x * (2 ^ n)

(* byte(x): the conversion to a Go byte keeps the low 8 bits. *)
ToByte(x) == x % 256

-----------------------------------------------------------------------------
(* 64-bit integers as 8 bytes, big-endian. *)

Zero64 == <<0, 0, 0, 0, 0, 0, 0, 0>>

(* The 64-bit value a * 2^48 + b * 2^24 + c, for a < 2^16 and b, c < 2^24. *)
W64(a, b, c) ==
    << (a \div 256) % 256, a % 256,
       (b \div 65536) % 256, (b \div 256) % 256, b % 256,
       (c \div 65536) % 256, (c \div 256) % 256, c % 256 >>

(* byte(x >> (8 * k)) for a 64-bit x: its k-th byte from the low end. *)
ByteOf(x, k) == x[8 - k]

RECURSIVE AddCarry(_, _, _, _)
AddCarry(a, b, i, carry) ==
    IF i = 0 THEN <<>>
    ELSE LET s == a[i] + b[i] + carry
         IN  Append(AddCarry(a, b, i - 1, s \div 256), s % 256)

(* a + b modulo 2^64 *)
Add64(a, b) == AddCarry(a, b, 8, 0)

RECURSIVE SubBorrow(_, _, _, _)
SubBorrow(a, b, i, borrow) ==
    IF i = 0 THEN <<>>
    ELSE LET d == a[i] - b[i] - borrow
         IN  Append(SubBorrow(a, b, i - 1, IF d < 0 THEN 1 ELSE 0),
                    IF d < 0 THEN d + 256 ELSE d)

(* a - b modulo 2^64 *)
Sub64(a, b) == SubBorrow(a, b, 8, 0)

RECURSIVE LessFrom(_, _, _)
LessFrom(a, b, i) ==
    IF i > Len(a) THEN FALSE
    ELSE IF a[i] # b[i] THEN a[i] < b[i]
    ELSE LessFrom(a, b, i + 1)

(* unsigned a < b *)
LtU64(a, b) == LessFrom(a, b, 1)

(* signed (int64) a < b: compare with the sign bit flipped. *)
FlipSign(a) == [a EXCEPT ![1] = (a[1] + 128) % 256]
LtS64(a, b) == LtU64(FlipSign(a), FlipSign(b))
GeS64(a, b) == ~LtS64(a, b)

-----------------------------------------------------------------------------
(* Characters (byte values) the code names. *)

ChUnderscore == 95   \* '_'
ChDash == 45         \* '-'

IsLower(c) == c >= 97 /\ c <= 122    \* 'a'..'z'
IsUpper(c) == c >= 65 /\ c <= 90     \* 'A'..'Z'
IsDigit(c) == c >= 48 /\ c <= 57     \* '0'..'9'

(* strings.ToUpper / strings.ToLower on one ASCII byte *)
UpperCh(c) == IF IsLower(c) THEN c - 32 ELSE c
LowerCh(c) == IF IsUpper(c) THEN c + 32 ELSE c

(* strings.ToLower on an ASCII string *)
ToLower(s) == [i \in 1..Len(s) |-> LowerCh(s[i])]

(* A faulty variant of EqualFold that compares the lengths only; the
   mismatch of C8 goes unnoticed under it. *)
EqualFoldLength(s, t) == Len(s) = Len(t)

(* strings.EqualFold on ASCII strings: equal up to letter case *)
EqualFold(s, t) ==
    /\ Len(s) = Len(t)
    /\ \A i \in 1..Len(s) : LowerCh(s[i]) = LowerCh(t[i])

(* unicode.IsSpace on an ASCII byte: \t \n \v \f \r and space *)
IsSpace(c) == (c >= 9 /\ c <= 13) \/ c = 32

RECURSIVE TrimLeft(_)
TrimLeft(s) ==
    IF s # <<>> /\ IsSpace(Head(s)) THEN TrimLeft(Tail(s)) ELSE s

RECURSIVE TrimRight(_)
TrimRight(s) ==
    IF s # <<>> /\ IsSpace(s[Len(s)]) THEN TrimRight(SubSeq(s, 1, Len(s) - 1)) ELSE s

(* strings.TrimSpace *)
TrimSpace(s) == TrimRight(TrimLeft(s))

(* strings.IndexByte: the 0-based index of the first c in s, or -1 *)
IndexByte(s, c) ==
    IF \E i \in 1..Len(s) : s[i] = c
    THEN (CHOOSE i \in 1..Len(s) : s[i] = c /\ \A j \in 1..(i - 1) : s[j] # c) - 1
    ELSE -1

(* strings.LastIndexByte: the 0-based index of the last c in s, or -1 *)
LastIndexByte(s, c) ==
    IF \E i \in 1..Len(s) : s[i] = c
    THEN (CHOOSE i \in 1..Len(s) : s[i] = c /\ \A j \in (i + 1)..Len(s) : s[j] # c) - 1
    ELSE -1

(* Go's s[lo:hi] with 0-based lo, hi *)
Slice(s, lo, hi) == SubSeq(s, lo + 1, hi)

(* byte-wise string comparison s < t (Go's < on strings): at the first index
   where they differ s ends or holds the smaller byte. *)
StrLess(s, t) ==
    \E i \in 1..Len(t) :
        /\ \A j \in 1..(i - 1) : j <= Len(s) /\ s[j] = t[j]
        /\ (i > Len(s) \/ s[i] < t[i])

-----------------------------------------------------------------------------
(* Package-level tables and constants. *)

(* A different alphabet, "abcdefghijklmnopqrstuvwxyz234567", whose symbols
   are not in ASCII order; the ordering of C4 fails under it. *)
alphaUnordered ==
    << 97, 98, 99, 100, 101, 102, 103, 104, 105, 106, 107, 108, 109,
       110, 111, 112, 113, 114, 115, 116, 117, 118, 119, 120, 121, 122,
       50, 51, 52, 53, 54, 55 >>

(* alpha = []byte("0123456789abcdefghjkmnpqrstvwxyz") *)
alpha ==
    << 48, 49, 50, 51, 52, 53, 54, 55, 56, 57,
       97, 98, 99, 100, 101, 102, 103, 104, 106, 107, 109, 110,
       112, 113, 114, 115, 116, 118, 119, 120, 121, 122 >>

(* alpha[idx] for a 0-based idx *)
AlphaAt(idx) == alpha[idx + 1]

(* init(), first loops: 0xFF everywhere, then each canonical symbol and the
   uppercase form of each letter. *)
alphaRevCanon(c) ==
    IF \E i \in 1..32 : alpha[i] = c \/ (IsLower(alpha[i]) /\ UpperCh(alpha[i]) = c)
    THEN (CHOOSE i \in 1..32 :
             alpha[i] = c \/ (IsLower(alpha[i]) /\ UpperCh(alpha[i]) = c)) - 1
    ELSE 255

(* A faulty variant of alphaRevFolded without the ambiguous glyphs; the
   lenient decode of C16 fails under it. *)
alphaRevUnfolded(c) == alphaRevCanon(c)

(* init(), the ambiguous glyphs: I i L l -> '1', O o -> '0', U u -> 'v' *)
alphaRevFolded(c) ==
    IF c \in {73, 105, 76, 108} THEN alphaRevCanon(49)
    ELSE IF c \in {79, 111} THEN alphaRevCanon(48)
    ELSE IF c \in {85, 117} THEN alphaRevCanon(118)
    ELSE alphaRevCanon(c)

(* The table alphaRev as init() leaves it, built once: entry c + 1 is
   alphaRev(c). *)
alphaRevTable == SubSeq([i \in 1..256 |-> alphaRevFolded(i - 1)], 1, 256)

(* alphaRev(c) *)
alphaRev(c) == alphaRevTable[c + 1]

(* prefixRe = ^[a-z][a-z0-9]{1,30}$ *)
prefixRe(p) ==
    /\ Len(p) >= 2
    /\ Len(p) <= 31
    /\ IsLower(p[1])
    /\ \A i \in 2..Len(p) : IsLower(p[i]) \/ IsDigit(p[i])

privacyBitMask == 32

(* epoch2020 = 1577836800000 = 0x016F5E66E800 *)
epoch2020 == <<0, 0, 1, 111, 94, 102, 232, 0>>

-----------------------------------------------------------------------------
(* Bit-Packer. *)

(* pack: | 48b time | 8b flags | 16b tenant | 12b seq | 16b shard | 60b random |
   ms and random60 are 64-bit values, the others plain integers. *)
pack(ms, flags, tenant, seq, shard, random60) ==
    << ByteOf(ms, 5), ByteOf(ms, 4), ByteOf(ms, 3),
       ByteOf(ms, 2), ByteOf(ms, 1), ByteOf(ms, 0),
       flags,
       ToByte(Shr(tenant, 8)), ToByte(tenant),
       ToByte(Shr(seq, 4)),
       BitOr(ToByte(Shl(BitAnd(seq, 15), 4)), ToByte(BitAnd(Shr(shard, 12), 15))),
       ToByte(BitAnd(Shr(shard, 4), 255)),
       BitOr(ToByte(Shl(BitAnd(shard, 15), 4)), BitAnd(ByteOf(random60, 7), 15)),
       ByteOf(random60, 6), ByteOf(random60, 5), ByteOf(random60, 4),
       ByteOf(random60, 3), ByteOf(random60, 2), ByteOf(random60, 1),
       ByteOf(random60, 0) >>

(* unpack: in is 0-based in the code, in[k] is b[k + 1] here.  A length other
   than 20 panics. *)
unpack(b) ==
    IF Len(b) # 20 THEN [panic |-> TRUE]
    ELSE [ panic    |-> FALSE,
           ms       |-> <<0, 0, b[1], b[2], b[3], b[4], b[5], b[6]>>,
           flags    |-> b[7],
           tenant   |-> BitOr(Shl(b[8], 8), b[9]),
           seq12    |-> BitOr(Shl(b[10], 4), Shr(BitAnd(b[11], 240), 4)),
           shard    |-> BitOr(BitOr(Shl(BitAnd(b[11], 15), 12), Shl(b[12], 4)),
                              Shr(BitAnd(b[13], 240), 4)),
           random60 |-> <<BitAnd(b[13], 15), b[14], b[15], b[16],
                          b[17], b[18], b[19], b[20]>> ]

-----------------------------------------------------------------------------
(* Base32 transform.  The uint32 accumulator acc is <<hi16, lo16>>. *)

(* A faulty variant of AccShlOr that forgets the bits already held; the
   codec of C3 loses data under it. *)
AccShlOrDrop(acc, k, v) == <<acc[1], v>>

(* (acc << k) | v on a uint32, for k <= 16 and v < 2^k: the bits shifted
   beyond bit 31 are lost. *)
AccShlOr(acc, k, v) ==
    << (acc[1] % (2 ^ (16 - k))) * (2 ^ k) + (acc[2] \div (2 ^ (16 - k))),
       BitOr((acc[2] % (2 ^ (16 - k))) * (2 ^ k), v) >>

(* (acc >> n) & mask, for n + width(mask) <= 16 *)
AccShrAnd(acc, n, mask) == BitAnd(Shr(acc[2], n), mask)

(* The inner loop of b32encode: for bits >= 5 { bits -= 5; out[j] = ...; j++ } *)
RECURSIVE EncodeDrain(_, _, _)
EncodeDrain(acc, bits, out) ==
    IF bits >= 5
    THEN EncodeDrain(acc, bits - 5, Append(out, AlphaAt(AccShrAnd(acc, bits - 5, 31))))
    ELSE [acc |-> acc, bits |-> bits, out |-> out]

(* One round of the outer loop of b32encode, on the byte b *)
EncodeByte(st, b) == EncodeDrain(AccShlOr(st.acc, 8, b), st.bits + 8, st.out)

(* The outer loop of b32encode over src[lo..hi], in order: the left half, then
   the right half from the state the left half leaves. *)
RECURSIVE EncodeRange(_, _, _, _)
EncodeRange(src, lo, hi, st) ==
    IF lo > hi THEN st
    ELSE IF lo = hi THEN EncodeByte(st, src[lo])
    ELSE LET mid  == (lo + hi) \div 2
             left == EncodeRange(src, lo, mid, st)
         IN  IF left.bits >= 0 THEN EncodeRange(src, mid + 1, hi, left) ELSE left

(* b32encode: panics unless len(src) = 20 *)
b32encode(src) ==
    IF Len(src) # 20 THEN [panic |-> TRUE, val |-> <<>>]
    ELSE LET r == EncodeRange(src, 1, 20, [acc |-> <<0, 0>>, bits |-> 0, out |-> <<>>])
         IN  [ panic |-> FALSE,
               val   |-> IF r.bits # 0
                         THEN Append(r.out,
                                  AlphaAt(BitAnd(Shl(r.acc[2] % 16, 5 - r.bits), 31)))
                         ELSE r.out ]

(* One round of the loop of b32decode, on the byte c at the 0-based index i;
   once an invalid symbol was met the function has returned. *)
DecodeChar(st, i, c) ==
    IF st.err # "" THEN st
    ELSE LET v == alphaRev(c)
         IN  IF v = 255
             THEN [st EXCEPT !.err = "invalid base32 at", !.pos = i]
             ELSE LET acc2  == AccShlOr(st.acc, 5, v)
                      bits2 == st.bits + 5
                  IN  IF bits2 >= 8
                      THEN [st EXCEPT !.acc = acc2, !.bits = bits2 - 8,
                                      !.out = Append(st.out, AccShrAnd(acc2, bits2 - 8, 255))]
                      ELSE [st EXCEPT !.acc = acc2, !.bits = bits2]

(* The loop of b32decode over s[lo..hi] (1-based here), in order *)
RECURSIVE DecodeRange(_, _, _, _)
DecodeRange(s, lo, hi, st) ==
    IF lo > hi THEN st
    ELSE IF lo = hi THEN DecodeChar(st, lo - 1, s[lo])
    ELSE LET mid  == (lo + hi) \div 2
             left == DecodeRange(s, lo, mid, st)
         IN  IF left.bits >= 0 THEN DecodeRange(s, mid + 1, hi, left) ELSE left

(* b32decode: ([]byte, error) as [err, pos, val] *)
b32decode(s) ==
    IF Len(s) # 32 THEN [err |-> "base32 length must be 32", pos |-> -1, val |-> <<>>]
    ELSE LET r == DecodeRange(s, 1, Len(s),
                      [err |-> "", pos |-> -1, acc |-> <<0, 0>>, bits |-> 0, out |-> <<>>])
         IN  IF r.err # "" THEN [err |-> r.err, pos |-> r.pos, val |-> <<>>]
             ELSE IF Len(r.out) # 20 \/ r.bits # 0
                  THEN [err |-> "invalid base32 payload", pos |-> -1, val |-> <<>>]
                  ELSE [err |-> "", pos |-> -1, val |-> r.out]

-----------------------------------------------------------------------------
(* Checksum engine. *)

(* Generator constants with the last one changed (0x2a1462b2); the known
   checksum of C10 is not computed under them. *)
polymodGenChanged == <<996825010, 642813549, 513874426, 1027748829, 705979058>>

(* The five generator constants of bech32Polymod *)
polymodGen == <<996825010, 642813549, 513874426, 1027748829, 705979059>>

(* The generators one round of bech32Polymod XORs in for the top bits b:
   if b&1 { chk ^= 0x3b6a57b2 } ... if b&0x10 { chk ^= 0x2a1462b3 } *)
PolymodGenFor(b) ==
    BitXor(BitXor(BitXor(BitXor(IF Bit(b, 0) # 0 THEN polymodGen[1] ELSE 0,
                                IF Bit(b, 1) # 0 THEN polymodGen[2] ELSE 0),
                         IF Bit(b, 2) # 0 THEN polymodGen[3] ELSE 0),
                  IF Bit(b, 3) # 0 THEN polymodGen[4] ELSE 0),
           IF Bit(b, 4) # 0 THEN polymodGen[5] ELSE 0)

(* PolymodGenFor(b) for b = 0..31, built once *)
PolymodGenTable == SubSeq([i \in 1..32 |-> PolymodGenFor(i - 1)], 1, 32)

(* One round of bech32Polymod; chk stays below 2^30. *)
PolymodStep(chk, v) ==
    LET b == Shr(chk, 25)
    IN  BitXor(BitXor(Shl(chk % 33554432, 5), v), PolymodGenTable[b + 1])

(* The loop of bech32Polymod over values[lo..hi], in order: the left half,
   then the right half from the value the left half leaves. *)
RECURSIVE PolymodRange(_, _, _, _)
PolymodRange(values, lo, hi, chk) ==
    IF lo > hi THEN chk
    ELSE IF lo = hi THEN PolymodStep(chk, values[lo])
    ELSE LET mid  == (lo + hi) \div 2
             left == PolymodRange(values, lo, mid, chk)
         IN  IF left >= 0 THEN PolymodRange(values, mid + 1, hi, left) ELSE left

bech32Polymod(values) == PolymodRange(values, 1, Len(values), 1)

(* hrpExpand: the high 3 bits of each byte, a zero, the low 5 bits of each *)
hrpExpand(s) ==
    [i \in 1..Len(s) |-> Shr(s[i], 5)] \o <<0>> \o [i \in 1..Len(s) |-> BitAnd(s[i], 31)]

(* payloadTo5bits: panics on a byte alphaRev maps to 0xFF *)
payloadTo5bits(payload) ==
    IF \E i \in 1..Len(payload) : alphaRev(payload[i]) = 255
    THEN [panic |-> TRUE, val |-> <<>>]
    ELSE [panic |-> FALSE, val |-> [i \in 1..Len(payload) |-> alphaRev(payload[i])]]

(* The four output characters: alpha[(pm >> 5*(3-i)) & 31], i = 0..3 *)
ChecksumChars(pm) ==
    [i \in 1..4 |-> AlphaAt(BitAnd(Shr(pm, 5 * (3 - (i - 1))), 31))]

(* checksum4Base: panics when base has no '_' after its first byte or when the
   payload holds a byte outside the decode table. *)
checksum4Base(base) ==
    LET idx == IndexByte(base, ChUnderscore)
    IN  IF idx <= 0 THEN [panic |-> TRUE, val |-> <<>>]
        ELSE LET hrp     == ToLower(Slice(base, 0, idx + 1))
                 payload == ToLower(Slice(base, idx + 1, Len(base)))
                 p5      == payloadTo5bits(payload)
             IN  IF p5.panic THEN [panic |-> TRUE, val |-> <<>>]
                 ELSE LET values == hrpExpand(hrp) \o p5.val \o <<0, 0, 0, 0>>
                          pm     == BitXor(bech32Polymod(values), 1)
                      IN  [panic |-> FALSE, val |-> ChecksumChars(pm)]

-----------------------------------------------------------------------------
(* Identifier facade. *)

(* x & ((1 << 60) - 1) on a 64-bit x *)
Mask60(x) == [x EXCEPT ![1] = BitAnd(x[1], 15)]

(* A faulty variant of MsSince2020 that forgets to subtract the epoch; the
   round trip of C2 fails under it. *)
MsSince2020NoEpoch(t) == IF GeS64(t, epoch2020) THEN t ELSE Zero64

(* NewFromParts, the conversion of the absolute time to ms since epoch2020:
   if c.TimeMs >= epoch2020 { uint64(c.TimeMs - epoch2020) } else { 0 } *)
MsSince2020(t) == IF GeS64(t, epoch2020) THEN Sub64(t, epoch2020) ELSE Zero64

(* NewFromParts(c, withChecksum): (string, error) as [err, val].
   c = [Prefix, TimeMs, Flags, Tenant, Seq, Shard, Random60]. *)
NewFromParts(c, withChecksum) ==
    IF ~prefixRe(c.Prefix) THEN [err |-> TRUE, val |-> <<>>]
    ELSE LET msSince2020 == MsSince2020(c.TimeMs)
             seq     == BitAnd(c.Seq, 4095)
             rand60  == Mask60(c.Random60)
             body    == pack(msSince2020, c.Flags, c.Tenant, seq, c.Shard, rand60)
             payload == b32encode(body).val
             base    == c.Prefix \o <<ChUnderscore>> \o payload
         IN  IF withChecksum
             THEN [err |-> FALSE, val |-> base \o <<ChDash>> \o checksum4Base(base).val]
             ELSE [err |-> FALSE, val |-> base]

(* The three outcomes of a Parse call: a record and no error, no record and
   an error, or a panic that unwinds out of Parse. *)
NoFields ==
    [ Prefix |-> <<>>, TimeMs |-> Zero64, Flags |-> 0, Tenant |-> 0,
      Seq |-> 0, Shard |-> 0, Random |-> Zero64 ]

ParseErr(msg, pos) == [kind |-> "err", msg |-> msg, pos |-> pos, rec |-> NoFields]

ParsePanic(msg) == [kind |-> "panic", msg |-> msg, pos |-> -1, rec |-> NoFields]

ParseOk(rec) == [kind |-> "ok", msg |-> "", pos |-> -1, rec |-> rec]

(* A faulty variant of FirstInvalid that reports the last symbol the
   decode table rejects; the position of C13 is wrong under it. *)
LastInvalid(payload) ==
    IF \E j \in 1..Len(payload) : alphaRev(payload[j]) = 255
    THEN (CHOOSE j \in 1..Len(payload) :
             /\ alphaRev(payload[j]) = 255
             /\ \A k \in (j + 1)..Len(payload) : alphaRev(payload[k]) # 255) - 1
    ELSE -1

(* Parse, lines 194-198: the 0-based index j of the first payload[j] the
   decode table maps to 0xFF, or -1 when the loop ends without one *)
FirstInvalid(payload) ==
    IF \E j \in 1..Len(payload) : alphaRev(payload[j]) = 255
    THEN (CHOOSE j \in 1..Len(payload) :
             /\ alphaRev(payload[j]) = 255
             /\ \A k \in 1..(j - 1) : alphaRev(payload[k]) # 255) - 1
    ELSE -1

(* Parse, from the prefix split on: base is the string without its checksum. *)
ParseBase(base) ==
    LET i == IndexByte(base, ChUnderscore)
    IN  IF i <= 0 THEN ParseErr("missing prefix separator", -1)
        ELSE LET prefix  == Slice(base, 0, i)
                 payload == Slice(base, i + 1, Len(base))
             IN  IF ~prefixRe(prefix) THEN ParseErr("invalid prefix", -1)
                 ELSE IF Len(payload) # 32 THEN ParseErr("payload must be 32 chars", -1)
                 ELSE IF FirstInvalid(payload) >= 0
                      THEN ParseErr("invalid base32 at pos", FirstInvalid(payload))
                 ELSE LET d == b32decode(payload)
                      IN  IF d.err # "" THEN ParseErr(d.err, d.pos)
                          ELSE LET u == unpack(d.val)
                               IN  IF u.panic THEN ParsePanic("unpack expects 20 bytes")
                                   ELSE ParseOk([ Prefix |-> prefix,
                                                  TimeMs |-> Add64(u.ms, epoch2020),
                                                  Flags  |-> u.flags,
                                                  Tenant |-> u.tenant,
                                                  Seq    |-> u.seq12,
                                                  Shard  |-> u.shard,
                                                  Random |-> u.random60 ])

(* Parse(s): trims, verifies a checksum suffix when there is a '-', then
   splits and decodes. *)
Parse(str) ==
    LET s == TrimSpace(str)
        i == LastIndexByte(s, ChDash)
    IN  IF i >= 0
        THEN LET base    == Slice(s, 0, i)
                 csGiven == Slice(s, i + 1, Len(s))
             IN  IF Len(csGiven) # 4 THEN ParseErr("checksum must be 4 chars", -1)
                 ELSE LET expected == checksum4Base(base)
                      IN  IF expected.panic THEN ParsePanic("checksum4Base")
                          ELSE IF ~EqualFold(csGiven, expected.val)
                               THEN ParseErr("checksum mismatch", -1)
                               ELSE ParseBase(base)
        ELSE ParseBase(s)

-----------------------------------------------------------------------------
(* State.  Three groups of variables: a caller of the codec functions, a
   caller of the facade (NewFromParts, Parse), and the generator New with
   the process-wide sequence state, the wall clock and its calling threads. *)

VARIABLES
    cdcPc,      \* codec caller: its position
    cdcIn,      \* the six fields handed to pack
    cdcBody,    \* the 20 bytes pack returned
    cdcText,    \* the 32 characters b32encode returned, or a given text
    cdcBack,    \* what b32decode returned: [err, pos, val]
    cdcOut,     \* what unpack returned
    cdcAgain,   \* b32encode of the decoded bytes
    phase,      \* facade caller: its position
    comp,       \* the Components handed to NewFromParts
    wantCs,     \* the withChecksum argument
    made,       \* what NewFromParts returned: [err, val]
    comp2,      \* a second Components value, same call
    made2,      \* what NewFromParts returned for comp2
    input,      \* the string handed to Parse
    res,        \* what Parse returned: [kind, msg, pos, rec]
    reenc,      \* NewFromParts of the parsed fields
    clock,      \* generator: index of the wall clock reading in ClockTicks
    lastMs,     \* package variable lastMs (int64)
    seq12,      \* package variable seq12
    mu,         \* package mutex: 0 when free, else the thread holding it
    thr,        \* per thread: position in New and its locals
    opts,       \* the option sets callers of New may pass
    budget,     \* calls of New that may still start, -1 when unlimited
    gens,       \* the last two passes through the locked section
    log         \* the identifiers New returned, in order of return

cdcVars == <<cdcPc, cdcIn, cdcBody, cdcText, cdcBack, cdcOut, cdcAgain>>

facVars == <<phase, comp, wantCs, made, comp2, made2, input, res, reenc>>

genVars == <<clock, lastMs, seq12, mu, thr, opts, budget, gens, log>>

vars == <<cdcVars, facVars, genVars>>

-----------------------------------------------------------------------------
(* The codec caller: pack, b32encode, b32decode, unpack in a row on given
   fields, b32decode then b32encode on a given canonical text, or b32decode
   on a text as a person wrote it. *)

(* The 64-bit value 2^k *)
Bit64(k) == [i \in 1..8 |-> IF i = 8 - (k \div 8) THEN 2 ^ (k % 8) ELSE 0]

FieldNames == {"ms", "flags", "tenant", "seq", "shard", "random60"}

(* The width in bits pack gives each field *)
FieldWidth(f) ==
    CASE f = "ms" -> 48
      [] f = "flags" -> 8
      [] f = "tenant" -> 16
      [] f = "seq" -> 12
      [] f = "shard" -> 16
      [] f = "random60" -> 60

FieldLo ==
    [ ms |-> Zero64, flags |-> 0, tenant |-> 0, seq |-> 0, shard |-> 0,
      random60 |-> Zero64 ]

FieldHi ==
    [ ms |-> <<0, 0, 255, 255, 255, 255, 255, 255>>, flags |-> 255,
      tenant |-> 65535, seq |-> 4095, shard |-> 65535,
      random60 |-> <<15, 255, 255, 255, 255, 255, 255, 255>> ]

(* Every field at one of its two extremes *)
FieldBackgrounds ==
    { [f \in FieldNames |-> IF f \in hi THEN FieldHi[f] ELSE FieldLo[f]] :
          hi \in SUBSET FieldNames }

(* The field f with bit k alone *)
FieldOneBit(f, k) == IF f \in {"ms", "random60"} THEN Bit64(k) ELSE 2 ^ k

(* The inputs of pack that are explored: every background, and on every
   background each single bit of each field. *)
CodecInputs ==
    FieldBackgrounds \cup
    UNION { { [bg EXCEPT ![f] = FieldOneBit(f, k)] : k \in 0..(FieldWidth(f) - 1) } :
                bg \in FieldBackgrounds, f \in FieldNames }

(* The canonical texts that are explored: all '0' or all 'z', with any one
   position holding any symbol of the alphabet. *)
CodecTexts ==
    { [i \in 1..32 |-> IF i = at THEN alpha[sym] ELSE fill] :
          at \in 1..32, sym \in 1..32, fill \in {alpha[1], alpha[32]} }

(* The ways a person may write '1' and '0': as they are, 'i' 'I' 'l' 'L'
   for '1', 'o' 'O' for '0' *)
SpellingsOfOne == {49, 105, 73, 108, 76}

SpellingsOfZero == {48, 111, 79}

(* text as a person may write it: one written for '1' and zero for '0', the
   letters in upper case when upper holds, all of this at every index or at
   the odd ones only *)
Respelled(text, one, zero, upper, oddOnly) ==
    [at \in 1..Len(text) |->
        IF oddOnly /\ at % 2 = 0 THEN text[at]
        ELSE IF text[at] = 49 THEN one
        ELSE IF text[at] = 48 THEN zero
        ELSE IF upper THEN UpperCh(text[at])
        ELSE text[at]]

NoDecode == [err |-> "", pos |-> -1, val |-> <<>>]

NoUnpack == [panic |-> FALSE]

CodecIdle ==
    /\ cdcPc = "idle"
    /\ cdcIn = FieldLo
    /\ cdcBody = <<>>
    /\ cdcText = <<>>
    /\ cdcBack = NoDecode
    /\ cdcOut = NoUnpack
    /\ cdcAgain = <<>>

CodecInit ==
    /\ cdcBody = <<>>
    /\ cdcBack = NoDecode
    /\ cdcOut = NoUnpack
    /\ cdcAgain = <<>>
    /\ \/ cdcPc = "fields" /\ cdcIn \in CodecInputs /\ cdcText = <<>>
       \/ cdcPc = "text" /\ cdcIn = FieldLo /\ cdcText \in CodecTexts

CallPack ==
    /\ cdcPc = "fields"
    /\ cdcBody' = pack(cdcIn.ms, cdcIn.flags, cdcIn.tenant, cdcIn.seq,
                       cdcIn.shard, cdcIn.random60)
    /\ cdcPc' = "packed"
    /\ UNCHANGED <<cdcIn, cdcText, cdcBack, cdcOut, cdcAgain>>
    /\ UNCHANGED <<facVars, genVars>>

CallEncode ==
    /\ cdcPc = "packed"
    /\ ~b32encode(cdcBody).panic
    /\ cdcText' = b32encode(cdcBody).val
    /\ cdcPc' = "encoded"
    /\ UNCHANGED <<cdcIn, cdcBody, cdcBack, cdcOut, cdcAgain>>
    /\ UNCHANGED <<facVars, genVars>>

(* a person copies the canonical text by hand, in another spelling *)
Respell ==
    /\ cdcPc = "text"
    /\ \E one \in SpellingsOfOne, zero \in SpellingsOfZero, upper \in BOOLEAN,
          oddOnly \in BOOLEAN :
          /\ Respelled(cdcText, one, zero, upper, oddOnly) # cdcText
          /\ cdcText' = Respelled(cdcText, one, zero, upper, oddOnly)
    /\ cdcPc' = "spelled"
    /\ UNCHANGED <<cdcIn, cdcBody, cdcBack, cdcOut, cdcAgain>>
    /\ UNCHANGED <<facVars, genVars>>

(* The indexes (1-based) at which a 'u' or 'U' is written *)
UPositions == {1, 16, 32}

(* a person writes 'u' or 'U' at one index of the text, and may write the
   zeros as 'o' or 'O' *)
WriteU ==
    /\ cdcPc = "text"
    /\ \E at \in UPositions, ch \in {117, 85}, zero \in SpellingsOfZero :
          cdcText' = [Respelled(cdcText, 49, zero, FALSE, FALSE) EXCEPT ![at] = ch]
    /\ cdcPc' = "spelled"
    /\ UNCHANGED <<cdcIn, cdcBody, cdcBack, cdcOut, cdcAgain>>
    /\ UNCHANGED <<facVars, genVars>>

CallDecode ==
    /\ cdcPc \in {"encoded", "text", "spelled"}
    /\ cdcBack' = b32decode(cdcText)
    /\ cdcPc' = CASE cdcPc = "encoded" -> "decoded"
                  [] cdcPc = "text" -> "textDecoded"
                  [] cdcPc = "spelled" -> "spelledDecoded"
    /\ UNCHANGED <<cdcIn, cdcBody, cdcText, cdcOut, cdcAgain>>
    /\ UNCHANGED <<facVars, genVars>>

CallUnpack ==
    /\ cdcPc = "decoded"
    /\ cdcBack.err = ""
    /\ cdcOut' = unpack(cdcBack.val)
    /\ cdcPc' = "unpacked"
    /\ UNCHANGED <<cdcIn, cdcBody, cdcText, cdcBack, cdcAgain>>
    /\ UNCHANGED <<facVars, genVars>>

CallEncodeAgain ==
    /\ cdcPc = "textDecoded"
    /\ cdcBack.err = ""
    /\ ~b32encode(cdcBack.val).panic
    /\ cdcAgain' = b32encode(cdcBack.val).val
    /\ cdcPc' = "textEncoded"
    /\ UNCHANGED <<cdcIn, cdcBody, cdcText, cdcBack, cdcOut>>
    /\ UNCHANGED <<facVars, genVars>>

CodecNext ==
    \/ CallPack \/ CallEncode \/ CallDecode \/ CallUnpack \/ CallEncodeAgain
    \/ Respell \/ WriteU

-----------------------------------------------------------------------------
(* The facade caller: NewFromParts on given Components, then Parse on the
   identifier as returned, on a changed copy of it, or on a string from
   elsewhere; then NewFromParts again on the parsed fields. *)

PrefixOrder == <<111, 114, 100, 101, 114>>    \* "order"
PrefixU2 == <<117, 50>>                        \* "u2"

(* The known vector: order_00myngy59c0003000dfk59mg3e36j3rr-9xgg *)
KnownVector ==
    << 111, 114, 100, 101, 114, 95,
       48, 48, 109, 121, 110, 103, 121, 53, 57, 99,
       48, 48, 48, 51, 48, 48, 48, 100, 102, 107, 53,
       57, 109, 103, 51, 101, 51, 54, 106, 51, 114, 114,
       45, 57, 120, 103, 103 >>

(* 1757869157707, the time of the known vector *)
TimeVector == <<0, 0, 1, 153, 73, 42, 173, 75>>

(* 2^48 *)
Two48 == <<0, 1, 0, 0, 0, 0, 0, 0>>

(* The TimeMs values that are explored: one ms before the epoch, the epoch,
   one ms after, the known vector's, the last one 48 bits hold, and the
   first one they do not hold. *)
PartsTimes ==
    { Sub64(epoch2020, W64(0, 0, 1)), epoch2020, Add64(epoch2020, W64(0, 0, 1)),
      TimeVector, Add64(epoch2020, Sub64(Two48, W64(0, 0, 1))),
      Add64(epoch2020, Two48) }

(* The other fields that are explored: the known vector's, every bit set
   (Seq and Random60 beyond their 12 and 60 bits), and a mixed pattern. *)
PartsProfiles ==
    { [ Flags |-> 0, Tenant |-> 12, Seq |-> 0, Shard |-> 13811,
        Random60 |-> <<2, 166, 144, 27, 134, 105, 15, 24>> ],
      [ Flags |-> 255, Tenant |-> 65535, Seq |-> 65535, Shard |-> 65535,
        Random60 |-> <<255, 255, 255, 255, 255, 255, 255, 255>> ],
      [ Flags |-> 165, Tenant |-> 32769, Seq |-> 6844, Shard |-> 4660,
        Random60 |-> <<245, 1, 2, 3, 4, 5, 6, 7>> ] }

(* Prefixes the pattern rejects: "", "o", "Order", "1order", "or-der",
   "or_der", "or der", " order" and a lower-case one of 32 characters *)
InvalidPrefixes ==
    { <<>>, <<111>>, <<79, 114, 100, 101, 114>>, <<49, 111, 114, 100, 101, 114>>,
      <<111, 114, 45, 100, 101, 114>>, <<111, 114, 95, 100, 101, 114>>,
      <<111, 114, 32, 100, 101, 114>>, <<32, 111, 114, 100, 101, 114>>,
      SubSeq([k \in 1..32 |-> 97], 1, 32) }

(* The Components that are explored: two valid prefixes with every time and
   every profile, and the rejected prefixes with the known vector's fields *)
PartsInputs ==
    { [ Prefix |-> pfx, TimeMs |-> tm, Flags |-> pr.Flags, Tenant |-> pr.Tenant,
        Seq |-> pr.Seq, Shard |-> pr.Shard, Random60 |-> pr.Random60 ] :
          pfx \in {PrefixOrder, PrefixU2}, tm \in PartsTimes, pr \in PartsProfiles }
    \cup
    { [ Prefix |-> pfx, TimeMs |-> TimeVector, Flags |-> 0, Tenant |-> 12,
        Seq |-> 0, Shard |-> 13811,
        Random60 |-> <<2, 166, 144, 27, 134, 105, 15, 24>> ] :
          pfx \in InvalidPrefixes }

(* The Components a caller builds from a Parsed record *)
ComponentsOf(rec) ==
    [ Prefix |-> rec.Prefix, TimeMs |-> rec.TimeMs, Flags |-> rec.Flags,
      Tenant |-> rec.Tenant, Seq |-> rec.Seq, Shard |-> rec.Shard,
      Random60 |-> rec.Random ]

(* Strings handed to Parse as they come from elsewhere: the empty string,
   "abc-1234", "-9xgg", two spaces and the known vector. *)
RawInputs ==
    { <<>>, <<97, 98, 99, 45, 49, 50, 51, 52>>, <<45, 57, 120, 103, 103>>, <<32, 32>>,
      KnownVector }

(* The characters a caller may put in the place of the character was:
   '0' '1' 'a' 'z' 'u' 'l' 'Z' '!' ' ' '-' '_' and the upper-case form of
   was, without was itself. *)
TamperChars(was) ==
    ({48, 49, 97, 122, 117, 108, 90, 33, 32, 45, 95} \cup {UpperCh(was)}) \ {was}

NoComponents ==
    [ Prefix |-> <<>>, TimeMs |-> Zero64, Flags |-> 0, Tenant |-> 0,
      Seq |-> 0, Shard |-> 0, Random60 |-> Zero64 ]

NoString == [err |-> FALSE, val |-> <<>>]

NoResult == [kind |-> "none", msg |-> "", pos |-> -1, rec |-> NoFields]

FacadeIdle ==
    /\ phase = "idle"
    /\ comp = NoComponents
    /\ wantCs = FALSE
    /\ made = NoString
    /\ comp2 = NoComponents
    /\ made2 = NoString
    /\ input = <<>>
    /\ res = NoResult
    /\ reenc = NoString

FacadeInit ==
    /\ made = NoString
    /\ comp2 = NoComponents
    /\ made2 = NoString
    /\ res = NoResult
    /\ reenc = NoString
    /\ \/ phase = "start" /\ comp \in PartsInputs /\ wantCs \in BOOLEAN /\ input = <<>>
       \/ phase = "input" /\ comp = NoComponents /\ wantCs = FALSE /\ input \in RawInputs

(* id, err := NewFromParts(comp, wantCs) *)
Generate ==
    /\ phase = "start"
    /\ made' = NewFromParts(comp, wantCs)
    /\ phase' = "made"
    /\ UNCHANGED <<comp, wantCs, comp2, made2, input, res, reenc>>
    /\ UNCHANGED <<cdcVars, genVars>>

(* a second identifier with the same prefix and the same withChecksum *)
GenerateSecond ==
    /\ phase = "made"
    /\ ~made.err
    /\ \E other \in PartsInputs :
          /\ other.Prefix = comp.Prefix
          /\ comp2' = other
          /\ made2' = NewFromParts(other, wantCs)
    /\ phase' = "pair"
    /\ UNCHANGED <<comp, wantCs, made, input, res, reenc>>
    /\ UNCHANGED <<cdcVars, genVars>>

(* the identifier goes to Parse as it was returned *)
Submit ==
    /\ phase = "made"
    /\ ~made.err
    /\ input' = made.val
    /\ phase' = "input"
    /\ UNCHANGED <<comp, wantCs, made, comp2, made2, res, reenc>>
    /\ UNCHANGED <<cdcVars, genVars>>

(* one character of the identifier is replaced by a different one *)
Tamper ==
    /\ phase = "made"
    /\ ~made.err
    /\ \E at \in 1..Len(made.val) :
          \E ch \in TamperChars(made.val[at]) :
              input' = [made.val EXCEPT ![at] = ch]
    /\ phase' = "input"
    /\ UNCHANGED <<comp, wantCs, made, comp2, made2, res, reenc>>
    /\ UNCHANGED <<cdcVars, genVars>>

(* The payload positions (1-based) and the characters ('!', ' ', 'u') of a
   double replacement *)
TwoPositions == {1, 2, 31, 32}

TwoChars == {33, 32, 117}

(* two characters of the payload are replaced *)
TamperTwo ==
    /\ phase = "made"
    /\ ~made.err
    /\ LET off == Len(comp.Prefix) + 1
       IN  \E p1 \in TwoPositions, p2 \in TwoPositions, c1 \in TwoChars, c2 \in TwoChars :
               /\ p1 < p2
               /\ c1 # made.val[off + p1]
               /\ c2 # made.val[off + p2]
               /\ input' = [made.val EXCEPT ![off + p1] = c1, ![off + p2] = c2]
    /\ phase' = "input"
    /\ UNCHANGED <<comp, wantCs, made, comp2, made2, res, reenc>>
    /\ UNCHANGED <<cdcVars, genVars>>

(* the identifier loses its last character, or gains one *)
Resize ==
    /\ phase = "made"
    /\ ~made.err
    /\ \/ input' = SubSeq(made.val, 1, Len(made.val) - 1)
       \/ \E ch \in TamperChars(0) : input' = Append(made.val, ch)
    /\ phase' = "input"
    /\ UNCHANGED <<comp, wantCs, made, comp2, made2, res, reenc>>
    /\ UNCHANGED <<cdcVars, genVars>>

(* the identifier is handed over with white space around it *)
Pad ==
    /\ phase = "made"
    /\ ~made.err
    /\ input' = <<32, 9>> \o made.val \o <<13, 10>>
    /\ phase' = "input"
    /\ UNCHANGED <<comp, wantCs, made, comp2, made2, res, reenc>>
    /\ UNCHANGED <<cdcVars, genVars>>

(* The parts of an identifier whose letters a caller may write in upper
   case *)
RecaseParts == {"prefix", "payload", "checksum"}

(* The part of the identifier id the character at index at (1-based) is in;
   the separators '_' and '-' are in none *)
PartAt(id, at) ==
    LET sep  == IndexByte(id, ChUnderscore) + 1
        dash == LastIndexByte(id, ChDash) + 1
    IN  IF at < sep THEN "prefix"
        ELSE IF at = sep \/ at = dash THEN "none"
        ELSE IF dash = 0 \/ at < dash THEN "payload"
        ELSE "checksum"

(* id with the letters of the given parts in upper case: all of them, or
   only those at odd indexes *)
Recased(id, parts, oddOnly) ==
    [at \in 1..Len(id) |->
        IF PartAt(id, at) \in parts /\ (~oddOnly \/ at % 2 = 1)
        THEN UpperCh(id[at]) ELSE id[at]]

(* the identifier is handed over with some of its letters in upper case *)
Recase ==
    /\ phase = "made"
    /\ ~made.err
    /\ \E parts \in (SUBSET RecaseParts) \ {{}}, oddOnly \in BOOLEAN :
          /\ Recased(made.val, parts, oddOnly) # made.val
          /\ input' = Recased(made.val, parts, oddOnly)
    /\ phase' = "input"
    /\ UNCHANGED <<comp, wantCs, made, comp2, made2, res, reenc>>
    /\ UNCHANGED <<cdcVars, genVars>>

(* the identifier is handed over under a prefix the pattern rejects *)
Reprefix ==
    /\ phase = "made"
    /\ ~made.err
    /\ \E bad \in InvalidPrefixes :
          input' = bad \o SubSeq(made.val, Len(comp.Prefix) + 1, Len(made.val))
    /\ phase' = "input"
    /\ UNCHANGED <<comp, wantCs, made, comp2, made2, res, reenc>>
    /\ UNCHANGED <<cdcVars, genVars>>

(* p, err := Parse(input) *)
CallParse ==
    /\ phase = "input"
    /\ res' = Parse(input)
    /\ phase' = "parsed"
    /\ UNCHANGED <<comp, wantCs, made, comp2, made2, input, reenc>>
    /\ UNCHANGED <<cdcVars, genVars>>

(* the parsed fields are encoded again, with a checksum when the input had
   one: withChecksum := strings.Contains(id, "-") *)
Reencode ==
    /\ phase = "parsed"
    /\ res.kind = "ok"
    /\ reenc' = NewFromParts(ComponentsOf(res.rec), IndexByte(input, ChDash) >= 0)
    /\ phase' = "reencoded"
    /\ UNCHANGED <<comp, wantCs, made, comp2, made2, input, res>>
    /\ UNCHANGED <<cdcVars, genVars>>

FacadeNext ==
    \/ Generate \/ GenerateSecond \/ Submit \/ Tamper \/ TamperTwo \/ Resize \/ Pad
    \/ Recase \/ Reprefix
    \/ CallParse \/ Reencode

-----------------------------------------------------------------------------
(* The generator New, step by step, called by threads that share the package
   variables mu, lastMs, seq12 and read one wall clock. *)

(* Largest number of threads calling New *)
NThreads == 2

(* Calls of New in a run that keeps the log of all returned identifiers *)
MaxCalls == 3

(* The readings of time.Now().UnixMilli() a run goes through, in order: one
   ms before the epoch, the epoch, one ms after, one second after, and one
   ms more. *)
ClockTicks ==
    << Sub64(epoch2020, W64(0, 0, 1)), epoch2020, Add64(epoch2020, W64(0, 0, 1)),
       Add64(epoch2020, W64(0, 0, 1000)), Add64(epoch2020, W64(0, 0, 1001)) >>

(* options as the Option functions leave it *)
OptionsPlain ==
    [tenant |-> 0, shard |-> 0, withChecksum |-> FALSE, bucketSeconds |-> 0]

OptionsBucketed ==
    [tenant |-> 12, shard |-> 13811, withChecksum |-> TRUE, bucketSeconds |-> 1]

(* WithBucketSeconds(7): buckets that do not start on the epoch *)
OptionsBucketed7 ==
    [tenant |-> 0, shard |-> 0, withChecksum |-> FALSE, bucketSeconds |-> 7]

(* The prefixes callers pass: "order" and "Order" *)
GenPrefixes == {PrefixOrder, <<79, 114, 100, 101, 114>>}

(* The outcomes of rand.Read that are explored, after rnd[0] &= 0x0F *)
GenRandoms == {Zero64, <<15, 255, 255, 255, 255, 255, 255, 255>>}

(* -x modulo 2^64 *)
Neg64(x) == Sub64(Zero64, x)

(* x % d for a non-negative 64-bit x and 0 < d <= 2^23 *)
RECURSIVE RemFrom(_, _, _, _)
RemFrom(x, d, i, r) ==
    IF i > 8 THEN r ELSE RemFrom(x, d, i + 1, (r * 256 + x[i]) % d)

(* (now / bs) * bs in int64 arithmetic, the division truncating toward zero *)
BucketFloor(now, bs) ==
    IF now[1] >= 128
    THEN Neg64(Sub64(Neg64(now), W64(0, 0, RemFrom(Neg64(now), bs, 1, 0))))
    ELSE Sub64(now, W64(0, 0, RemFrom(now, bs, 1, 0)))

(* New, lines 111-116: the clock reading, bucketed when bucketSeconds > 0 *)
BucketedNow(now, o) ==
    IF o.bucketSeconds > 0 THEN BucketFloor(now, o.bucketSeconds * 1000) ELSE now

(* A faulty variant of SeqStep that keeps the counter on a new millisecond;
   the step rule of C6 fails under it. *)
SeqStepNoReset(ms, last, seq) ==
    IF ms = last
    THEN [lastMs |-> last, seq12 |-> BitAnd(seq + 1, 4095)]
    ELSE [lastMs |-> ms, seq12 |-> seq]

(* New, lines 119-124: the read-compare-update of (lastMs, seq12) *)
SeqStep(ms, last, seq) ==
    IF ms = last
    THEN [lastMs |-> last, seq12 |-> BitAnd(seq + 1, 4095)]
    ELSE [lastMs |-> ms, seq12 |-> 0]

(* New, lines 129-132: the flags byte *)
NewFlags(o) == IF o.bucketSeconds > 0 THEN BitOr(0, privacyBitMask) ELSE 0

(* New, line 144: the body *)
NewBody(ms, o, localSeq, random60) ==
    pack(ms, NewFlags(o), o.tenant, localSeq, o.shard, random60)

(* New, lines 145-154: the returned string *)
NewString(prefix, body, o) ==
    LET base == prefix \o <<ChUnderscore>> \o b32encode(body).val
    IN  IF o.withChecksum THEN base \o <<ChDash>> \o checksum4Base(base).val
        ELSE base

IdleThread ==
    [ pc |-> "idle", prefix |-> <<>>, o |-> OptionsPlain, read |-> Zero64,
      now |-> Zero64, ms |-> Zero64, localSeq |-> 0, ret |-> <<>> ]

GenIdle ==
    /\ clock = 1
    /\ lastMs = Zero64
    /\ seq12 = 0
    /\ mu = 0
    /\ thr = <<>>
    /\ opts = {}
    /\ budget = 0
    /\ gens = <<>>
    /\ log = <<>>

(* The package variables as the program starts *)
GenStart ==
    /\ lastMs = Zero64
    /\ seq12 = 0
    /\ mu = 0
    /\ gens = <<>>
    /\ log = <<>>

(* One to NThreads threads, MaxCalls calls in all, every return logged; the
   clock starts at any reading; the callers pass one option set on every
   call, or, one thread alone, one of two on each call. *)
GenInit ==
    /\ GenStart
    /\ clock \in 1..Len(ClockTicks)
    /\ \/ /\ opts \in {{OptionsPlain}, {OptionsBucketed}}
          /\ thr \in {[t \in 1..n |-> IdleThread] : n \in 1..NThreads}
       \/ /\ opts \in {{OptionsBucketed7}, {OptionsPlain, OptionsBucketed}}
          /\ thr = [t \in 1..1 |-> IdleThread]
    /\ budget = MaxCalls

(* One thread, any number of calls, only the last return kept; the clock
   starts one reading before its last, the caller passes no option. *)
BurstInit ==
    /\ GenStart
    /\ clock = Len(ClockTicks) - 1
    /\ opts = {OptionsPlain}
    /\ thr = [t \in 1..1 |-> IdleThread]
    /\ budget = -1

Logged(entry) == IF budget < 0 THEN log ELSE Append(log, entry)

(* New, lines 102-109: a prefix the pattern rejects panics (the caller
   recovers and sees no identifier); otherwise the options are applied. *)
NewEnter(t) ==
    /\ thr[t].pc = "idle"
    /\ budget # 0
    /\ budget' = IF budget > 0 THEN budget - 1 ELSE budget
    /\ \E pfx \in GenPrefixes, o \in opts :
          IF ~prefixRe(pfx)
          THEN /\ log' = Logged([ thread |-> t, panic |-> TRUE, id |-> <<>>,
                                   body |-> <<>>, read |-> Zero64, o |-> o ])
               /\ thr' = thr
          ELSE /\ thr' = [thr EXCEPT ![t].pc = "clock", ![t].prefix = pfx, ![t].o = o]
               /\ log' = log
    /\ UNCHANGED <<clock, lastMs, seq12, mu, opts, gens>>
    /\ UNCHANGED <<cdcVars, facVars>>

(* New, lines 111-116: now, bucketed, and ms := now - epoch2020 *)
ReadClock(t) ==
    /\ thr[t].pc = "clock"
    /\ LET now == BucketedNow(ClockTicks[clock], thr[t].o)
       IN  thr' = [thr EXCEPT ![t].pc = "lock", ![t].read = ClockTicks[clock],
                              ![t].now = now, ![t].ms = Sub64(now, epoch2020)]
    /\ UNCHANGED <<clock, lastMs, seq12, mu, opts, budget, gens, log>>
    /\ UNCHANGED <<cdcVars, facVars>>

(* New, line 118: mu.Lock() *)
Lock(t) ==
    /\ thr[t].pc = "lock"
    /\ mu = 0
    /\ mu' = t
    /\ thr' = [thr EXCEPT ![t].pc = "locked"]
    /\ UNCHANGED <<clock, lastMs, seq12, opts, budget, gens, log>>
    /\ UNCHANGED <<cdcVars, facVars>>

(* New, lines 119-125: the read-compare-update and localSeq := seq12 *)
Step(t) ==
    /\ thr[t].pc = "locked"
    /\ LET nxt == SeqStep(thr[t].ms, lastMs, seq12)
       IN  /\ lastMs' = nxt.lastMs
           /\ seq12' = nxt.seq12
           /\ thr' = [thr EXCEPT ![t].pc = "unlock", ![t].localSeq = nxt.seq12]
           /\ gens' = (IF gens = <<>> THEN <<>> ELSE <<gens[Len(gens)]>>)
                          \o <<[ms |-> thr[t].ms, seq |-> nxt.seq12]>>
    /\ UNCHANGED <<clock, mu, opts, budget, log>>
    /\ UNCHANGED <<cdcVars, facVars>>

(* New, line 126: mu.Unlock() *)
Unlock(t) ==
    /\ thr[t].pc = "unlock"
    /\ mu' = 0
    /\ thr' = [thr EXCEPT ![t].pc = "build"]
    /\ UNCHANGED <<clock, lastMs, seq12, opts, budget, gens, log>>
    /\ UNCHANGED <<cdcVars, facVars>>

(* New, lines 128-154: flags, random bits, pack, encode, checksum, return *)
Build(t) ==
    /\ thr[t].pc = "build"
    /\ \E random60 \in GenRandoms :
          LET body == NewBody(thr[t].ms, thr[t].o, thr[t].localSeq, random60)
              id   == NewString(thr[t].prefix, body, thr[t].o)
          IN  /\ thr' = [thr EXCEPT ![t].pc = "idle", ![t].ret = id]
              /\ log' = Logged([ thread |-> t, panic |-> FALSE, id |-> thr'[t].ret,
                                 body |-> body, read |-> thr[t].read, o |-> thr[t].o ])
    /\ UNCHANGED <<clock, lastMs, seq12, mu, opts, budget, gens>>
    /\ UNCHANGED <<cdcVars, facVars>>

(* the wall clock moves on to its next reading *)
Tick ==
    /\ clock < Len(ClockTicks)
    /\ clock' = clock + 1
    /\ UNCHANGED <<lastMs, seq12, mu, thr, opts, budget, gens, log>>
    /\ UNCHANGED <<cdcVars, facVars>>

GenNext ==
    \/ \E t \in DOMAIN thr :
          NewEnter(t) \/ ReadClock(t) \/ Lock(t) \/ Step(t) \/ Unlock(t) \/ Build(t)
    \/ Tick

-----------------------------------------------------------------------------
(* Specifications: one per caller, the variables of the others at rest. *)

(* The facade caller *)
Init == FacadeInit /\ CodecIdle /\ GenIdle
Next == FacadeNext
Spec == Init /\ [][Next]_vars

(* The codec caller *)
InitCodec == CodecInit /\ FacadeIdle /\ GenIdle
SpecCodec == InitCodec /\ [][CodecNext]_vars

(* Threads calling New, a bounded number of calls *)
InitGen == GenInit /\ CodecIdle /\ FacadeIdle
SpecGen == InitGen /\ [][GenNext]_vars

(* One thread calling New without end *)
InitBurst == BurstInit /\ CodecIdle /\ FacadeIdle
SpecBurst == InitBurst /\ [][GenNext]_vars

-----------------------------------------------------------------------------
(* Properties. *)

(* The facade caller has the result of Parse in hand *)
Parsed == phase \in {"parsed", "reencoded"}

(* epoch2020 <= t < epoch2020 + 2^48 *)
InTimeRange(t) == GeS64(t, epoch2020) /\ LtS64(t, Add64(epoch2020, Two48))

(* The canonical symbols: the digits and the lower-case letters but i l o u *)
CanonicalSymbols == (48..57 \cup 97..122) \ {105, 108, 111, 117}

(* The input is the returned identifier with the character at index at
   (1-based) replaced by another one *)
TamperedAt(at) ==
    /\ ~made.err
    /\ Len(input) = Len(made.val)
    /\ at \in 1..Len(input)
    /\ input[at] # made.val[at]
    /\ \A k \in 1..Len(input) : k # at => input[k] = made.val[k]

(* C1: Parse is total: whatever the input, it returns a record and no error
   or no record and an error, and never panics. *)
ParseIsTotal ==
    Parsed =>
        \/ res.kind = "ok" /\ res.msg = "" /\ prefixRe(res.rec.Prefix)
        \/ res.kind = "err" /\ res.msg # "" /\ res.rec = NoFields

(* C2: for Components with a valid prefix and a time within the 48 bits
   after the epoch, and for both values of withChecksum, Parse of what
   NewFromParts returned succeeds and gives back every field, Seq and
   Random60 reduced to their 12 and 60 bits. *)
PartsRoundTrip ==
    (Parsed /\ ~made.err /\ comp # NoComponents /\ input = made.val
        /\ InTimeRange(comp.TimeMs)) =>
        /\ res.kind = "ok"
        /\ res.rec.Prefix = comp.Prefix
        /\ res.rec.TimeMs = comp.TimeMs
        /\ res.rec.Flags = comp.Flags
        /\ res.rec.Tenant = comp.Tenant
        /\ res.rec.Seq = comp.Seq % 4096
        /\ res.rec.Shard = comp.Shard
        /\ res.rec.Random = [comp.Random60 EXCEPT ![1] = @ % 16]

(* C2, its case: a checksummed identifier of Components with every flag bit
   set and Seq and Random60 wider than their fields was parsed back *)
PartsRoundTripSeen ==
    /\ phase = "parsed"
    /\ input = made.val
    /\ wantCs
    /\ InTimeRange(comp.TimeMs)
    /\ comp.Flags = 255
    /\ comp.Seq > 4095
    /\ comp.Random60[1] > 15
    /\ res.kind = "ok"
    /\ res.rec.Seq = 4095

(* C3: the codec is lossless: b32encode of a packed tuple is 32 canonical
   symbols, b32decode of it returns the same 20 bytes, unpack of those the
   same tuple, and pack of the unpacked fields the same bytes; b32encode of
   the bytes decoded from a canonical text is that text. *)
CodecLossless ==
    /\ cdcPc \in {"encoded", "decoded", "unpacked"} =>
          /\ Len(cdcText) = 32
          /\ \A k \in 1..Len(cdcText) : cdcText[k] \in CanonicalSymbols
    /\ cdcPc \in {"decoded", "unpacked"} =>
          /\ cdcBack.err = ""
          /\ cdcBack.val = cdcBody
    /\ cdcPc = "unpacked" =>
          /\ ~cdcOut.panic
          /\ cdcOut.ms = cdcIn.ms
          /\ cdcOut.flags = cdcIn.flags
          /\ cdcOut.tenant = cdcIn.tenant
          /\ cdcOut.seq12 = cdcIn.seq
          /\ cdcOut.shard = cdcIn.shard
          /\ cdcOut.random60 = cdcIn.random60
          /\ pack(cdcOut.ms, cdcOut.flags, cdcOut.tenant, cdcOut.seq12,
                  cdcOut.shard, cdcOut.random60) = cdcBody
    /\ cdcPc = "textEncoded" =>
          /\ Len(cdcBack.val) = 20
          /\ cdcAgain = cdcText

(* C3, its case: a tuple with the lowest bit of seq alone on a background of
   set bits went through pack, b32encode, b32decode and unpack *)
CodecLosslessSeen ==
    /\ cdcPc = "unpacked"
    /\ cdcIn.seq = 1
    /\ cdcIn.shard = 65535
    /\ cdcIn.flags = 255
    /\ cdcOut.seq12 = 1
    /\ cdcOut.shard = 65535

(* C4: of two identifiers with the same prefix and times t1 < t2 within the
   48 bits after the epoch, the first is the smaller string, whatever the
   other fields are. *)
TimeOrdersStrings ==
    (phase = "pair" /\ ~made.err /\ ~made2.err /\ comp.Prefix = comp2.Prefix
        /\ InTimeRange(comp.TimeMs) /\ InTimeRange(comp2.TimeMs)
        /\ LtS64(comp.TimeMs, comp2.TimeMs)) =>
        StrLess(made.val, made2.val)

(* C4, its case: the earlier identifier has every other field at its
   largest, the later one, one ms after, has them smaller *)
TimeOrdersStringsSeen ==
    /\ phase = "pair"
    /\ comp.TimeMs = epoch2020
    /\ comp2.TimeMs = Add64(epoch2020, W64(0, 0, 1))
    /\ comp.Flags = 255
    /\ comp2.Flags = 0
    /\ StrLess(made.val, made2.val)

(* NewFromParts returned an identifier with a checksum *)
MadeWithChecksum ==
    /\ phase \in {"made", "pair", "input", "parsed", "reencoded"}
    /\ comp # NoComponents
    /\ ~made.err
    /\ wantCs

(* The input is the checksummed identifier with its final character
   replaced *)
FinalCharReplaced == MadeWithChecksum /\ Parsed /\ TamperedAt(Len(made.val))

(* Parse failed with the checksum-length error whenever the trimmed input
   has a '-' followed by other than 4 characters *)
SuffixLengthRule ==
    LET trimmed == TrimSpace(input)
        dash    == LastIndexByte(trimmed, ChDash)
    IN  (Parsed /\ dash >= 0 /\ Len(trimmed) - (dash + 1) # 4) =>
            res = ParseErr("checksum must be 4 chars", -1)

(* C8: an identifier generated with the checksum has length
   len(prefix) + 1 + 32 + 1 + 4 and is accepted by Parse; with its final
   character replaced by a different one Parse fails with a checksum
   mismatch, except that the same letter in the other case is accepted and
   that white space or '-' in that place gives the checksum-length error;
   a suffix after the last '-' of the trimmed input whose length is not 4
   makes Parse fail with the checksum-length error. *)
ChecksumRoundTrip ==
    /\ MadeWithChecksum => Len(made.val) = Len(comp.Prefix) + 1 + 32 + 1 + 4
    /\ (MadeWithChecksum /\ Parsed /\ input = made.val) => res.kind = "ok"
    /\ FinalCharReplaced =>
          LET now == input[Len(input)]
              was == made.val[Len(made.val)]
          IN  IF LowerCh(now) = LowerCh(was)
              THEN res.kind = "ok" /\ res.rec.Prefix = comp.Prefix
              ELSE IF IsSpace(now) \/ now = ChDash
                   THEN res = ParseErr("checksum must be 4 chars", -1)
                   ELSE res = ParseErr("checksum mismatch", -1)
    /\ SuffixLengthRule

(* C8, its case: the final character of a checksummed identifier was
   replaced by another canonical symbol and Parse reported the mismatch *)
ChecksumRoundTripSeen ==
    /\ FinalCharReplaced
    /\ input[Len(input)] \in CanonicalSymbols
    /\ res = ParseErr("checksum mismatch", -1)

(* C8 as stated: any different final character gives a checksum mismatch *)
ChecksumRoundTripAsStated ==
    /\ MadeWithChecksum => Len(made.val) = Len(comp.Prefix) + 1 + 32 + 1 + 4
    /\ (MadeWithChecksum /\ Parsed /\ input = made.val) => res.kind = "ok"
    /\ FinalCharReplaced => res = ParseErr("checksum mismatch", -1)
    /\ SuffixLengthRule

(* The character at index at of the base string was replaced by one with a
   different symbol value: in the prefix another lower-case letter or
   digit, in the payload a symbol the decode table maps to another value *)
SymbolChangedAt(at) ==
    LET plen == Len(comp.Prefix)
        now  == input[at]
        was  == made.val[at]
    IN  /\ TamperedAt(at)
        /\ \/ /\ at <= plen
              /\ IsLower(now) \/ IsDigit(now)
           \/ /\ at >= plen + 2
              /\ at <= plen + 33
              /\ alphaRev(now) # 255
              /\ alphaRev(now) # alphaRev(was)

(* C9: with any single character of the base string (prefix or one of the
   32 payload positions) replaced by one of a different symbol value and
   the original checksum kept, Parse rejects the identifier with a checksum
   mismatch. *)
ChecksumSensitive ==
    \A at \in 1..Len(input) :
        (MadeWithChecksum /\ Parsed /\ SymbolChangedAt(at)) =>
            res = ParseErr("checksum mismatch", -1)

(* "9xgg" *)
KnownChecksum == <<57, 120, 103, 103>>

(* C10: the checksum over order_00myngy59c0003000dfk59mg3e36j3rr is 9xgg;
   Parse accepts the known vector with prefix order, tenant 12, seq 0 and
   flags 0; encoding the parsed fields again with the checksum gives the
   same string; with its final character changed Parse fails with a
   checksum mismatch, except that G is accepted and that white space or '-'
   gives the checksum-length error. *)
KnownVectorHolds ==
    /\ (Parsed /\ input = KnownVector) =>
          /\ checksum4Base(SubSeq(input, 1, 38)) = [panic |-> FALSE, val |-> KnownChecksum]
          /\ res.kind = "ok"
          /\ res.rec.Prefix = PrefixOrder
          /\ res.rec.Tenant = 12
          /\ res.rec.Seq = 0
          /\ res.rec.Flags = 0
    /\ (phase = "reencoded" /\ input = KnownVector) => reenc = [err |-> FALSE, val |-> KnownVector]
    /\ (FinalCharReplaced /\ made.val = KnownVector) =>
          LET now == input[Len(input)]
          IN  IF now = 71 THEN res.kind = "ok"
              ELSE IF IsSpace(now) \/ now = ChDash
                   THEN res = ParseErr("checksum must be 4 chars", -1)
                   ELSE res = ParseErr("checksum mismatch", -1)

(* C10, its case: the known vector, as a string from elsewhere, was parsed
   and encoded again *)
KnownVectorSeen ==
    /\ phase = "reencoded"
    /\ input = KnownVector
    /\ comp = NoComponents
    /\ res.rec.Tenant = 12
    /\ reenc.val = KnownVector

(* C10 as stated: any other final character gives a checksum mismatch *)
KnownVectorAsStated ==
    /\ (Parsed /\ input = KnownVector) =>
          /\ checksum4Base(SubSeq(input, 1, 38)) = [panic |-> FALSE, val |-> KnownChecksum]
          /\ res.kind = "ok"
          /\ res.rec.Prefix = PrefixOrder
          /\ res.rec.Tenant = 12
          /\ res.rec.Seq = 0
          /\ res.rec.Flags = 0
    /\ (phase = "reencoded" /\ input = KnownVector) => reenc = [err |-> FALSE, val |-> KnownVector]
    /\ (FinalCharReplaced /\ made.val = KnownVector) => res = ParseErr("checksum mismatch", -1)

(* The calls of New that returned an identifier, as indexes of the log *)
Returned == {k \in 1..Len(log) : ~log[k].panic}

(* The callers pass the same options on every call *)
SameOptions == Cardinality(opts) = 1

(* The (time, seq) pair an identifier carries: the first 48 bits of its
   body and the 12 bits after the tenant *)
TimeSeqOf(entry) ==
    <<SubSeq(entry.body, 1, 6), unpack(entry.body).seq12>>

(* C5: one thread calling New again and again with the same prefix and the
   same options, under a clock that never goes back, gets identifiers each
   strictly greater than every earlier one (fewer than 4096 calls in any one
   millisecond). *)
BurstOrdered ==
    (Len(thr) = 1 /\ SameOptions /\ Len(log) < 4096) =>
        \A k1 \in Returned, k2 \in Returned :
            k1 < k2 => StrLess(log[k1].id, log[k2].id)

(* A thread passes through the locked section in this step *)
StepOf(t) == thr[t].pc = "locked" /\ thr'[t].pc = "unlock"

(* A thread returns from New in this step *)
ReturnOf(t) == thr[t].pc = "build" /\ thr'[t].pc = "idle"

(* The seq field of an identifier without checksum, from its text *)
SeqCarried(id) == Parse(id).rec.Seq

(* The step of the sequence state on a call with timestamp ms, and the
   counter value the call embeds *)
SeqStepRule ==
    \A t \in DOMAIN thr :
        /\ StepOf(t) =>
              /\ IF thr[t].ms = lastMs
                 THEN seq12' = (seq12 + 1) % 4096 /\ lastMs' = lastMs
                 ELSE seq12' = 0 /\ lastMs' = thr[t].ms
              /\ thr'[t].localSeq = seq12'
        /\ ReturnOf(t) => SeqCarried(thr'[t].ret) = thr[t].localSeq

(* Two consecutive generations in the same millisecond: the counter goes up
   by one, from 4095 back to 0 *)
ConsecutiveByOne ==
    (Len(gens) = 2 /\ gens[1].ms = gens[2].ms) =>
        /\ gens[2].seq = (gens[1].seq + 1) % 4096
        /\ gens[1].seq # 4095 => gens[2].seq >= gens[1].seq

(* C6: on every generation with timestamp ms, if ms equals lastMs the
   counter becomes (counter + 1) mod 4096 and lastMs stays, otherwise lastMs
   becomes ms and the counter 0; the call embeds the resulting counter as
   seq.  So two consecutive generations in the same millisecond have seq
   values one apart modulo 4096: non-decreasing except at the wrap from
   4095 to 0. *)
SequenceStep == [][SeqStepRule]_vars /\ []ConsecutiveByOne

(* C6, its case: two consecutive generations in one millisecond, the first
   with seq 4095 *)
SequenceStepSeen ==
    /\ Len(gens) = 2
    /\ gens[1].ms = gens[2].ms
    /\ gens[1].seq = 4095
    /\ gens[2].seq = 0
    /\ seq12 = 0

(* C6 as stated: two consecutive generations in the same millisecond have
   non-decreasing seq values *)
ConsecutiveNonDecreasing ==
    (Len(gens) = 2 /\ gens[1].ms = gens[2].ms) => gens[2].seq >= gens[1].seq

(* C7: under every interleaving of concurrent New calls with the same
   options and a clock that never goes back, no two returned identifiers
   carry the same (time, seq) pair (fewer than 4096 calls for any one time
   value). *)
NoDuplicateTimeSeq ==
    (SameOptions /\ Len(log) < 4096) =>
        \A k1 \in Returned, k2 \in Returned :
            k1 < k2 => TimeSeqOf(log[k1]) # TimeSeqOf(log[k2])

(* The input is the returned identifier with some letters in upper case *)
CaseVariant ==
    /\ ~made.err
    /\ comp # NoComponents
    /\ input # made.val
    /\ ToLower(input) = made.val

(* C11: for every canonical identifier Parse accepts, every string obtained
   from it by changing the case of some of its letters (in the prefix, the
   payload or the checksum) is accepted by Parse and yields the same field
   values. *)
MixedCaseAccepted ==
    (Parsed /\ CaseVariant /\ Parse(made.val).kind = "ok") =>
        /\ res.kind = "ok"
        /\ res.rec = Parse(made.val).rec

(* The wire version of a flags byte: its bits 7..6 *)
WireVersion(flags) == Shr(flags, 6)

(* C12: Parse fails for every identifier whose decoded flags byte has a
   wire version (bits 7..6) other than 00: a record Parse returns has wire
   version 00. *)
UnknownVersionRejected ==
    (Parsed /\ res.kind = "ok") => WireVersion(res.rec.Flags) = 0

(* The characters decode accepts: the canonical symbols, their upper-case
   forms, and i I l L o O u U *)
DecodeSet ==
    CanonicalSymbols \cup {UpperCh(c) : c \in CanonicalSymbols}
        \cup {105, 73, 108, 76, 111, 79, 117, 85}

(* The prefix of an input without '-': what is before its first '_' *)
InputPrefix == Slice(input, 0, IndexByte(input, ChUnderscore))

(* The payload of an input without '-': what is after its first '_' *)
InputPayload == Slice(input, IndexByte(input, ChUnderscore) + 1, Len(input))

(* The 0-based index of the first character of InputPayload outside
   DecodeSet *)
FirstOutside ==
    (CHOOSE j \in 1..Len(InputPayload) :
        /\ InputPayload[j] \notin DecodeSet
        /\ \A k \in 1..(j - 1) : InputPayload[k] \in DecodeSet) - 1

(* Parse was given an input without checksum suffix, with a valid prefix and
   a payload of 32 characters of which one at least is outside DecodeSet *)
BadSymbolInput ==
    /\ Parsed
    /\ IndexByte(input, ChDash) < 0
    /\ IndexByte(input, ChUnderscore) > 0
    /\ prefixRe(InputPrefix)
    /\ Len(InputPayload) = 32
    /\ \E j \in 1..32 : InputPayload[j] \notin DecodeSet

(* C13: for an input without checksum suffix (no '-'), with a valid prefix
   and a payload of exactly 32 characters of which one at least is outside
   the accepted decode set, Parse returns no record and the invalid-symbol
   error with the 0-based payload index of the first such character, unless
   the payload ends in white space: Parse trims that and fails with the
   payload-length error. *)
InvalidSymbolPosition ==
    BadSymbolInput =>
        IF IsSpace(InputPayload[32])
        THEN res = ParseErr("payload must be 32 chars", -1)
        ELSE res = ParseErr("invalid base32 at pos", FirstOutside)

(* C13, its case: two characters outside the decode set, '!' at payload
   index 1 and ' ' at index 30, and Parse reported index 1 *)
InvalidSymbolPositionSeen ==
    /\ BadSymbolInput
    /\ InputPayload[2] = 33
    /\ InputPayload[31] = 32
    /\ res = ParseErr("invalid base32 at pos", 1)

(* C13 as stated: the invalid-symbol error with the index of the first such
   character, wherever it is *)
InvalidSymbolPositionAsStated ==
    BadSymbolInput => res = ParseErr("invalid base32 at pos", FirstOutside)

(* The 0-based index of the first 'u' or 'U' in the text handed to decode *)
FirstU ==
    (CHOOSE j \in 1..Len(cdcText) :
        /\ cdcText[j] \in {117, 85}
        /\ \A k \in 1..(j - 1) : cdcText[k] \notin {117, 85}) - 1

(* C14: a 32-character payload that contains u or U fails decode with the
   invalid-symbol error at the index of that character; it is never decoded
   as another symbol. *)
UIsInvalid ==
    (cdcPc = "spelledDecoded" /\ \E j \in 1..Len(cdcText) : cdcText[j] \in {117, 85}) =>
        /\ cdcBack.err = "invalid base32 at"
        /\ cdcBack.pos = FirstU
        /\ cdcBack.val = <<>>

(* The canonical payload a hand-written text stands for: letters in lower
   case, i and l read as '1', o as '0' *)
CanonicalOf(text) ==
    [at \in 1..Len(text) |->
        LET c == LowerCh(text[at])
        IN  IF c \in {105, 108} THEN 49 ELSE IF c = 111 THEN 48 ELSE c]

(* The text handed to decode is a respelling of a canonical payload of 32
   symbols *)
LenientSpelling ==
    /\ Len(cdcText) = 32
    /\ cdcText # CanonicalOf(cdcText)
    /\ \A k \in 1..32 : CanonicalOf(cdcText)[k] \in CanonicalSymbols

(* C16: for every canonical payload p of 32 symbols, a string obtained from
   p by writing letters in upper case, i I l or L for a 1, o or O for a 0,
   decodes to the same 20 bytes as p. *)
LenientDecode ==
    (cdcPc = "spelledDecoded" /\ LenientSpelling) =>
        /\ cdcBack.err = ""
        /\ Len(cdcBack.val) = 20
        /\ cdcBack = b32decode(CanonicalOf(cdcText))

(* C16, its case: a text with L for a 1 and both O and 0 for zeros was
   decoded to the bytes of its canonical form *)
LenientDecodeSeen ==
    /\ cdcPc = "spelledDecoded"
    /\ LenientSpelling
    /\ \E k \in 1..32 : cdcText[k] = 76
    /\ \E k \in 1..32 : cdcText[k] = 79
    /\ \E k \in 1..32 : cdcText[k] = 48
    /\ cdcBack.err = ""
    /\ Len(cdcBack.val) = 20

(* The input is the returned identifier under a prefix the pattern rejects *)
Reprefixed ==
    /\ ~made.err
    /\ comp # NoComponents
    /\ \E bad \in InvalidPrefixes :
          input = bad \o SubSeq(made.val, Len(comp.Prefix) + 1, Len(made.val))

(* C15: a prefix the pattern rejects produces no identifier: NewFromParts
   returns an error and the empty string, and Parse of an identifier under
   such a prefix returns the invalid-prefix error and no record. *)
InvalidPrefixRejected ==
    /\ (phase = "made" /\ ~prefixRe(comp.Prefix)) => made = [err |-> TRUE, val |-> <<>>]
    /\ (Parsed /\ Reprefixed) => res = ParseErr("invalid prefix", -1)

(* The TimeMs Parse returns for a logged identifier: the 48-bit time field
   of its body plus the epoch *)
TimeOf(entry) ==
    Add64(<<0, 0, entry.body[1], entry.body[2], entry.body[3], entry.body[4],
            entry.body[5], entry.body[6]>>, epoch2020)

(* The time a logged call of New had to encode: its clock reading, bucketed
   when the call asked for it *)
TimeToEncode(entry) == BucketedNow(entry.read, entry.o)

(* C17: whenever the time New has to encode is earlier than the epoch, the
   48-bit time field of the body is 0 and Parse of the identifier returns
   TimeMs equal to the epoch. *)
PreEpochClamps ==
    \A k \in Returned :
        LtS64(TimeToEncode(log[k]), epoch2020) =>
            /\ SubSeq(log[k].body, 1, 6) = <<0, 0, 0, 0, 0, 0>>
            /\ TimeOf(log[k]) = epoch2020

(* The largest multiple of step not exceeding the non-negative time now *)
FloorMultiple(now, step) == Sub64(now, W64(0, 0, RemFrom(now, step, 1, 0)))

(* C18: for a New call with bucketSeconds = b > 0 at a clock reading now at
   or after the epoch, the identifier's TimeMs is the largest multiple of
   b*1000 not exceeding now and its flags byte is exactly 0x20; with b <= 0
   the TimeMs equals now and the flags byte is 0. *)
PrivacyBucketing ==
    \A k \in Returned :
        GeS64(log[k].read, epoch2020) =>
            IF log[k].o.bucketSeconds > 0
            THEN /\ TimeOf(log[k]) = FloorMultiple(log[k].read, log[k].o.bucketSeconds * 1000)
                 /\ log[k].body[7] = 32
            ELSE /\ TimeOf(log[k]) = log[k].read
                 /\ log[k].body[7] = 0

(* C19: in a single-threaded sequence of New calls that mixes bucketed and
   unbucketed generation under a clock that never goes back, any two
   identifiers that embed the same time value carry different seq values
   (fewer than 4096 calls for any one time value). *)
MixedOptionsApart ==
    (Len(thr) = 1 /\ Len(log) < 4096) =>
        \A k1 \in Returned, k2 \in Returned :
            k1 < k2 => TimeSeqOf(log[k1]) # TimeSeqOf(log[k2])

=============================================================================
